---- MODULE Spec2Model ----
(***************************************************************************)
(* Model of the request transport of the bitlum exchange GraphQL client:   *)
(* graphqlBackend.do (backend.go), graphQLCore.do (query_accounts.go) and  *)
(* the nonce counter that graphQLCore keeps for macaroon authentication.   *)
(* responseBase.Error (backend.go), NewClient and the operations of the   *)
(* Client (unnamed/part_001) are exercised by specifications of their own. *)
(*                                                                         *)
(* Strings are sequences of characters or of short chunks, so that         *)
(* concatenation, escaping and formatting are computed, not assumed.       *)
(***************************************************************************)
EXTENDS Integers, Sequences, FiniteSets, TLC

\* ------------------------------------------------------------------ bounds
\* goroutines that share one core instance
NProcs == 2
\* calls of do started in one behaviour
MaxCalls == 3
\* largest value of the wall clock
MaxTime == 0
\* errors in one response
MaxErrors == 2
\* locations of one error
MaxLocations == 3
MaxInstances == 3
MaxNonce == 3

Procs == 1..NProcs

\* ----------------------------------------------------------------- strings
Empty == << >>

Digit(d) == CASE d = 0 -> "0" [] d = 1 -> "1" [] d = 2 -> "2" [] d = 3 -> "3"
              [] d = 4 -> "4" [] d = 5 -> "5" [] d = 6 -> "6" [] d = 7 -> "7"
              [] d = 8 -> "8" [] OTHER -> "9"

RECURSIVE Itoa(_)
\* decimal rendering of a non-negative integer (strconv / %d)
Itoa(n) == IF n < 10 THEN << Digit(n) >> ELSE Itoa(n \div 10) \o << Digit(n % 10) >>

\* %d of an int: a minus sign before the digits of a negative value
FormatInt(n) == IF n < 0 THEN << "-" >> \o Itoa(0 - n) ELSE Itoa(n)

\* the sequences over S of length at most n
SeqsUpTo(S, n) == UNION {[1..k -> S] : k \in 0..n}

\* ------------------------------------------------------------------- JSON
\* values a caller can put into request.Variables
JNull == [t |-> "null", s |-> Empty, n |-> 0, kv |-> << >>]
JStr(s) == [t |-> "str", s |-> s, n |-> 0, kv |-> << >>]
JNum(n) == [t |-> "num", s |-> Empty, n |-> n, kv |-> << >>]
\* a struct with json tags: ordered fields <<name, scalar value>>
JObj(kv) == [t |-> "obj", s |-> Empty, n |-> 0, kv |-> kv]
\* a value encoding/json rejects (channel, func, NaN)
JChan == [t |-> "chan", s |-> Empty, n |-> 0, kv |-> << >>]

RECURSIVE EscapeStringRaw(_)
\* slip: the quote character is copied without its backslash
EscapeStringRaw(s) ==
  IF s = << >> THEN << >>
  ELSE LET c == Head(s) IN
       (CASE c = "\\" -> << "\\", "\\" >>
          [] c = "<"  -> << "\\", "u", "0", "0", "3", "c" >>
          [] OTHER    -> << c >>) \o EscapeStringRaw(Tail(s))

RECURSIVE EscapeString(_)
\* encoding/json string escaping: quote and backslash are backslash-escaped,
\* '<' is written as the six characters backslash u 0 0 3 c
EscapeString(s) ==
  IF s = << >> THEN << >>
  ELSE LET c == Head(s) IN
       (CASE c = "\"" -> << "\\", "\"" >>
          [] c = "\\" -> << "\\", "\\" >>
          [] c = "<"  -> << "\\", "u", "0", "0", "3", "c" >>
          [] OTHER    -> << c >>) \o EscapeString(Tail(s))

Quote(s) == << "\"" >> \o EscapeString(s) \o << "\"" >>

\* slip: every value is taken to be serializable
SerializableAny(v) == TRUE

Serializable(v) == v.t # "chan" /\ \A i \in 1..Len(v.kv) : v.kv[i][2].t # "chan"

MarshalScalar(v) ==
  CASE v.t = "null" -> << "n", "u", "l", "l" >>
    [] v.t = "str"  -> Quote(v.s)
    [] OTHER        -> Itoa(v.n)

RECURSIVE MarshalMembers(_)
MarshalMembers(kv) ==
  IF kv = << >> THEN << >>
  ELSE Quote(kv[1][1]) \o << ":" >> \o MarshalScalar(kv[1][2])
       \o (IF Len(kv) > 1 THEN << "," >> ELSE << >>) \o MarshalMembers(Tail(kv))

MarshalValue(v) ==
  IF v.t = "obj" THEN << "{" >> \o MarshalMembers(v.kv) \o << "}" >>
  ELSE MarshalScalar(v)

\* json.Marshal(request{Query, Variables})
MarshalRequest(r) ==
  << "{" >> \o Quote(<< "q", "u", "e", "r", "y" >>) \o << ":" >> \o Quote(r.Query)
  \o << "," >> \o Quote(<< "v", "a", "r", "i", "a", "b", "l", "e", "s" >>)
  \o << ":" >> \o MarshalValue(r.Variables) \o << "}" >>

\* ---- the receiver's json.Unmarshal of the body (mock server, checkBody)
ParseFail == [ok |-> FALSE, v |-> JNull, i |-> 0]

DigitVal(c) == CASE c = "0" -> 0 [] c = "1" -> 1 [] c = "2" -> 2 [] c = "3" -> 3
                 [] c = "4" -> 4 [] c = "5" -> 5 [] c = "6" -> 6 [] c = "7" -> 7
                 [] c = "8" -> 8 [] OTHER -> 9

IsDigit(c) == c \in {"0", "1", "2", "3", "4", "5", "6", "7", "8", "9"}

RECURSIVE ReadChars(_, _, _)
\* body of a string literal from position i up to the closing quote
ReadChars(b, i, acc) ==
  IF i > Len(b) THEN ParseFail
  ELSE IF b[i] = "\"" THEN [ok |-> TRUE, v |-> JStr(acc), i |-> i + 1]
  ELSE IF b[i] = "\\" THEN
    IF i + 1 > Len(b) THEN ParseFail
    ELSE IF b[i + 1] \in {"\"", "\\"} THEN ReadChars(b, i + 2, Append(acc, b[i + 1]))
    ELSE IF b[i + 1] = "u" /\ i + 5 <= Len(b)
            /\ SubSeq(b, i + 2, i + 5) = << "0", "0", "3", "c" >>
         THEN ReadChars(b, i + 6, Append(acc, "<"))
    ELSE ParseFail
  ELSE ReadChars(b, i + 1, Append(acc, b[i]))

RECURSIVE ReadDigits(_, _, _)
ReadDigits(b, i, acc) ==
  IF i <= Len(b) /\ IsDigit(b[i]) THEN ReadDigits(b, i + 1, acc * 10 + DigitVal(b[i]))
  ELSE [ok |-> TRUE, v |-> JNum(acc), i |-> i]

ParseScalar(b, i) ==
  IF i > Len(b) THEN ParseFail
  ELSE IF b[i] = "\"" THEN ReadChars(b, i + 1, << >>)
  ELSE IF IsDigit(b[i]) THEN ReadDigits(b, i, 0)
  ELSE IF i + 3 <= Len(b) /\ SubSeq(b, i, i + 3) = << "n", "u", "l", "l" >>
       THEN [ok |-> TRUE, v |-> JNull, i |-> i + 4]
  ELSE ParseFail

RECURSIVE ParseMembers(_, _, _)
\* members of an object whose values are scalars, from position i (after '{')
ParseMembers(b, i, acc) ==
  IF i > Len(b) THEN ParseFail
  ELSE IF b[i] = "}" /\ acc = << >> THEN [ok |-> TRUE, v |-> JObj(acc), i |-> i + 1]
  ELSE LET k == ParseScalar(b, i) IN
    IF ~k.ok \/ k.v.t # "str" \/ k.i > Len(b) \/ b[k.i] # ":" THEN ParseFail
    ELSE LET x == ParseScalar(b, k.i + 1) IN
      IF ~x.ok \/ x.i > Len(b) THEN ParseFail
      ELSE LET acc2 == Append(acc, << k.v.s, x.v >>) IN
        IF b[x.i] = "," THEN ParseMembers(b, x.i + 1, acc2)
        ELSE IF b[x.i] = "}" THEN [ok |-> TRUE, v |-> JObj(acc2), i |-> x.i + 1]
        ELSE ParseFail

ParseValue(b, i) ==
  IF i <= Len(b) /\ b[i] = "{" THEN ParseMembers(b, i + 1, << >>) ELSE ParseScalar(b, i)

\* an object read into a Go map: member order is not kept
AsMap(v) == [v EXCEPT !.kv = {v.kv[j] : j \in 1..Len(v.kv)}]

\* json.Unmarshal(body, &request{}) on the receiving side
UnmarshalRequest(b) ==
  LET bad == [ok |-> FALSE, Query |-> Empty, Variables |-> AsMap(JNull)] IN
  IF Len(b) < 2 \/ b[1] # "{" THEN bad
  ELSE LET k1 == ParseScalar(b, 2) IN
    IF ~k1.ok \/ k1.v # JStr(<< "q", "u", "e", "r", "y" >>) \/ k1.i > Len(b) \/ b[k1.i] # ":" THEN bad
    ELSE LET q == ParseScalar(b, k1.i + 1) IN
      IF ~q.ok \/ q.v.t # "str" \/ q.i > Len(b) \/ b[q.i] # "," THEN bad
      ELSE LET k2 == ParseScalar(b, q.i + 1) IN
        IF ~k2.ok \/ k2.v # JStr(<< "v", "a", "r", "i", "a", "b", "l", "e", "s" >>)
           \/ k2.i > Len(b) \/ b[k2.i] # ":" THEN bad
        ELSE LET x == ParseValue(b, k2.i + 1) IN
          IF ~x.ok \/ x.i # Len(b) \/ b[x.i] # "}" THEN bad
          ELSE [ok |-> TRUE, Query |-> q.v.s, Variables |-> AsMap(x.v)]

\* -------------------------------------------------------------- macaroons
\* a macaroon is its list of caveats; the root macaroon carries the caveats
\* it was issued with
Caveat(cond, arg) == [cond |-> cond, arg |-> arg]

Root == << Caveat("user", 7) >>

\* slip: the macaroon is handed on without the nonce caveat
AddNonceDropped(m, nonce) == m

\* auth.AddNonce(c.macaroon, c.nonce): a copy of m with the nonce caveat added
AddNonce(m, nonce) == Append(m, Caveat("nonce", nonce))

\* auth.AddCurrentTime(m): a copy of m with the time caveat added
AddCurrentTime(m, t) == Append(m, Caveat("time", t))

RECURSIVE EncodeMacaroon(_)
\* auth.EncodeMacaroon(m): the caveats written out one after the other
EncodeMacaroon(m) ==
  IF m = << >> THEN << >>
  ELSE << Head(m).cond, "=" >> \o Itoa(Head(m).arg) \o << ";" >> \o EncodeMacaroon(Tail(m))

\* ------------------------------------------------------------- HTTP values
ApplicationJSON == << "application/json" >>
Bearer == << "Bearer", " " >>
Macaroon == << "Macaroon", " " >>

GoodURL == << "http://exchange", "/query" >>
\* a URL http.NewRequest cannot parse
BadURL == << ":", "/query" >>

TokenA == << "t", "o", "k" >>
Tokens == {TokenA}

NoHeader == [ContentType |-> Empty, Authorization |-> Empty]
NoRequest == [method |-> "", url |-> Empty, header |-> NoHeader, body |-> Empty]

\* http.NewRequest("POST", c.url, bytes.NewBuffer(reqJSON))
NewRequest(url, reqJSON) == [method |-> "POST", url |-> url, header |-> NoHeader, body |-> reqJSON]

\* httpReq.Header.Set("Content-Type", "application/json")
SetContentType(q) == [q EXCEPT !.header.ContentType = ApplicationJSON]

\* slip: the scheme is left out of the header value
SetAuthorizationBare(q, scheme, token) == [q EXCEPT !.header.Authorization = token]

\* httpReq.Header.Set("Authorization", scheme + token)
SetAuthorization(q, scheme, token) == [q EXCEPT !.header.Authorization = scheme \o token]

\* ---------------------------------------------------------------- requests
QueryMe == << "q", "u", "e", "r", "y", " ", "M", "e" >>
QueryDepth == << "q", "u", "e", "r", "y", " ", "\"", "D", "\\" >>

\* the callers of do: Client.UserID (no variables, authenticated),
\* Client.Depth (depthRequestVariables, not authenticated) and a direct call
\* whose variables encoding/json cannot serialize
Callers == {"UserID", "Depth", "direct"}

RequestOf(op) ==
  CASE op = "UserID" -> [Query |-> QueryMe, Variables |-> JNull]
    [] op = "Depth"  -> [Query |-> QueryDepth,
                         Variables |-> JObj(<< << << "m", "a", "r", "k", "e", "t" >>, JStr(<< "B", "<", "\"" >>) >>,
                                               << << "l", "i", "m", "i", "t" >>, JNum(10) >> >>)]
    [] OTHER         -> [Query |-> QueryMe, Variables |-> JChan]

\* slip: Withdraw passes false as Depth does
AuthenticatedOfPublicWithdraw(op) ==
  op \notin {"Depth", "LightningNodeReachable", "Info", "Markets", "Deals", "Withdraw"}

\* the flag an operation hands to do: only the public market-data operations
\* pass false
AuthenticatedOf(op) ==
  op \notin {"Depth", "LightningNodeReachable", "Info", "Markets", "Deals"}

\* bodies the server answers with: one that is not JSON and one that is
ResponseBody == << "response body" >>
JSONBody == << "{\"data\":{}}" >>

\* httpResp.Status: the code and its reason phrase
StatusText(code) ==
  CASE code = 200 -> << "200 OK" >>
    [] code = 301 -> << "301 Moved Permanently" >>
    [] OTHER      -> << "500 Internal Server Error" >>

\* errors.New(prefix + err.Error()): the prefix and the cause
NoError == << >>
ErrorOf(out) ==
  CASE out = "errMarshal"        -> << "failed to json.Marshal request: ", "cause" >>
    [] out = "errNewRequest"     -> << "failed to http.NewRequest: ", "cause" >>
    [] out = "errAddNonce"       -> << "failed to add nonce to macaroon: ", "cause" >>
    [] out = "errAddCurrentTime" -> << "failed to add current time to macaroon: ", "cause" >>
    [] out = "errEncode"         -> << "failed to encode macaroon: ", "cause" >>
    [] out = "errDo"             -> << "failed to do http request: ", "cause" >>
    [] out = "errRead"           -> << "failed to read response body: ", "cause" >>
    [] OTHER                     -> NoError

\* ------------------------------------------------- errors of a response
\* a Go slice: nil, or a possibly empty list of elements; len is 0 for both
NilSlice == [nil |-> TRUE, elems |-> << >>]
MakeSlice(s) == [nil |-> FALSE, elems |-> s]

Location(line, column) == [Line |-> line, Column |-> column]
Locations == {Location(123, 12), Location(-1, 0)}
Messages == {Empty, << "some error" >>}

\* responseError{Message, Locations}
ResponseErrors ==
  {[Message |-> m, Locations |-> l] : m \in Messages, l \in SeqsUpTo(Locations, MaxLocations)}

\* responseBase{Errors}
ResponseBases ==
  {[Errors |-> NilSlice]}
    \cup {[Errors |-> MakeSlice(es)] : es \in SeqsUpTo(ResponseErrors, MaxErrors)}

\* an error value: nil, or an error with a message (which may be empty)
NilError == [nil |-> TRUE, msg |-> Empty]
ErrorsNew(msg) == [nil |-> FALSE, msg |-> msg]

\* fmt.Sprintf("%d:%d", l.Line, l.Column)
FormatLocation(l) == FormatInt(l.Line) \o << ":" >> \o FormatInt(l.Column)

RECURSIVE JoinLocationsLeading(_, _, _)
\* slip: the separator is written before the first location too
JoinLocationsLeading(msg, ls, i) ==
  IF i >= Len(ls) THEN msg
  ELSE JoinLocationsLeading(msg \o << ", " >> \o FormatLocation(ls[i + 1]), ls, i + 1)

RECURSIVE JoinLocations(_, _, _)
\* for i, l := range e.Locations: i locations are rendered already; the
\* separator goes before every location but the first
JoinLocations(msg, ls, i) ==
  IF i >= Len(ls) THEN msg
  ELSE JoinLocations((IF i > 0 THEN msg \o << ", " >> ELSE msg) \o FormatLocation(ls[i + 1]),
                     ls, i + 1)

\* slip: a single location goes through the loop of the default case
FormatFirstPlural(e) ==
  IF Len(e.Locations) = 0 THEN e.Message
  ELSE JoinLocations(e.Message \o << ", locations: " >>, e.Locations, 0)

\* the message of the first error: the switch over len(e.Locations)
FormatFirst(e) ==
  CASE Len(e.Locations) = 0 -> e.Message
    [] Len(e.Locations) = 1 ->
         e.Message \o << ", location: " >> \o FormatInt(e.Locations[1].Line)
                   \o << ":" >> \o FormatInt(e.Locations[1].Column)
    [] OTHER -> JoinLocations(e.Message \o << ", locations: " >>, e.Locations, 0)

\* slip: only the nil list counts as no error
ErrorNilOnly(rb) ==
  IF rb.Errors.nil THEN NilError
  ELSE IF Len(rb.Errors.elems) = 0 THEN ErrorsNew(Empty)
  ELSE LET msg == FormatFirst(rb.Errors.elems[1]) IN
       IF Len(rb.Errors.elems) > 1
       THEN ErrorsNew(FormatInt(Len(rb.Errors.elems))
                      \o << " errors occurred, first one is: " >> \o msg)
       ELSE ErrorsNew(msg)

\* slip: the error rendered is the last one of the list
ErrorLast(rb) ==
  IF Len(rb.Errors.elems) = 0 THEN NilError
  ELSE LET msg == FormatFirst(rb.Errors.elems[Len(rb.Errors.elems)]) IN
       IF Len(rb.Errors.elems) > 1
       THEN ErrorsNew(FormatInt(Len(rb.Errors.elems))
                      \o << " errors occurred, first one is: " >> \o msg)
       ELSE ErrorsNew(msg)

\* responseBase.Error
Error(rb) ==
  IF Len(rb.Errors.elems) = 0 THEN NilError
  ELSE LET msg == FormatFirst(rb.Errors.elems[1]) IN
       IF Len(rb.Errors.elems) > 1
       THEN ErrorsNew(FormatInt(Len(rb.Errors.elems))
                      \o << " errors occurred, first one is: " >> \o msg)
       ELSE ErrorsNew(msg)

\* ------------------------------------------------------------ the client
RECURSIVE DecodeCaveats(_, _, _)
\* the caveats of a serialized macaroon from position i on; a string that
\* holds no caveat, or one that breaks off inside a caveat, is malformed
DecodeCaveats(s, i, acc) ==
  IF i > Len(s) THEN [ok |-> acc # << >>, m |-> acc]
  ELSE IF i + 1 > Len(s) \/ s[i + 1] # "=" \/ s[i] \in {"=", ";"} \/ IsDigit(s[i])
  THEN [ok |-> FALSE, m |-> << >>]
  ELSE LET d == ReadDigits(s, i + 2, 0) IN
       IF d.i = i + 2 \/ d.i > Len(s) \/ s[d.i] # ";" THEN [ok |-> FALSE, m |-> << >>]
       ELSE DecodeCaveats(s, d.i + 1, Append(acc, Caveat(s[i], d.v.n)))

\* a *Macaroon: nil, or a macaroon with its caveats
NilMacaroon == [nil |-> TRUE, caveats |-> << >>]

\* auth.DecodeMacaroon(macaroon)
DecodeMacaroon(s) ==
  LET d == DecodeCaveats(s, 1, << >>) IN
  IF d.ok THEN [m |-> [nil |-> FALSE, caveats |-> d.m], err |-> NilError]
  ELSE [m |-> NilMacaroon, err |-> ErrorsNew(<< "failed to decode macaroon" >>)]

\* the serialized root macaroon, a copy of it that breaks off, and a string
\* that was never a macaroon
GoodMacaroon == EncodeMacaroon(Root)
TruncatedMacaroon == SubSeq(GoodMacaroon, 1, Len(GoodMacaroon) - 1)
GarbageMacaroon == << "z", "z" >>
MacaroonStrings == {Empty, GoodMacaroon, TruncatedMacaroon, GarbageMacaroon}

\* a *Client: nil, or a client with its core
NilClient == [nil |-> TRUE, core |-> [url |-> Empty, macaroon |-> NilMacaroon, jwt |-> Empty]]
ClientOf(url, m, jwt) == [nil |-> FALSE, core |-> [url |-> url, macaroon |-> m, jwt |-> jwt]]

\* slip: the client is built before the decode error is looked at
NewClientPartial(url, macaroon, jwt) ==
  LET d == IF macaroon # Empty THEN DecodeMacaroon(macaroon)
           ELSE [m |-> NilMacaroon, err |-> NilError] IN
  [client |-> ClientOf(url, d.m, jwt), err |-> d.err]

\* NewClient(url, macaroon, jwt)
NewClient(url, macaroon, jwt) ==
  LET d == IF macaroon # Empty THEN DecodeMacaroon(macaroon)
           ELSE [m |-> NilMacaroon, err |-> NilError] IN
  IF ~d.err.nil THEN [client |-> NilClient, err |-> d.err]
  ELSE [client |-> ClientOf(url, d.m, jwt), err |-> NilError]

\* ---- the operations of the client
Operations ==
  {"Me", "UserID", "Depth", "Deposits", "Order", "CreateOrder", "CreateOrderAsk",
   "CreateOrderBid", "Withdraw", "LightningNodeReachable", "Info",
   "LightningCreateInvoice", "LightningWithdraw", "Accounts", "IssueApiToken",
   "Markets", "Deals", "Tickers"}

\* a JSON array, kept as members without names
JArr(items) ==
  [t |-> "arr", s |-> Empty, n |-> 0, kv |-> [i \in 1..Len(items) |-> << Empty, items[i] >>]]

Items(v) == [i \in 1..Len(v.kv) |-> v.kv[i][2]]

\* the value of the member of an object; null when the object has none
Field(v, key) ==
  LET idx == {i \in 1..Len(v.kv) : v.kv[i][1] = key} IN
  IF idx = {} THEN JNull ELSE v.kv[CHOOSE i \in idx : \A j \in idx : j <= i][2]

Member(key, v) == << << key >>, v >>

QueryAccounts == << "q", "u", "e", "r", "y", " ", "A", "c", "c", "o", "u", "n", "t", "s" >>
QueryIssueApiToken == << "q", "u", "e", "r", "y", " ", "{", " ", "i", "s", "s", "u", "e", "A", "p", "i", "T", "o", "k", "e", "n", " ", "}" >>

\* a JSON boolean
JBool(b) == [t |-> "bool", s |-> Empty, n |-> IF b THEN 1 ELSE 0, kv |-> << >>]

\* a []string as encoding/json writes it: null for the nil slice
JStrings(l) ==
  IF l.nil THEN JNull ELSE JArr([i \in 1..Len(l.elems) |-> JStr(l.elems[i])])

\* the arguments of a call of an operation: strings, a []string and numbers;
\* each operation reads the ones its signature has
StringSlices == {NilSlice, MakeSlice(<< >>), MakeSlice(<< << "BTCETH" >>, << "BTCDASH" >> >>)}

OperationArgs ==
  {[asset |-> a, text |-> << "addr" >>, list |-> l, n |-> 5, m |-> 10] :
     a \in {<< "BTC" >>, << "ETH" >>}, l \in StringSlices}
    \cup {[asset |-> << "BTC" >>, text |-> Empty, list |-> NilSlice, n |-> 0, m |-> 0]}

NoArgs == [asset |-> Empty, text |-> Empty, list |-> NilSlice, n |-> 0, m |-> 0]

QueryOf(name) ==
  CASE name = "Accounts" -> QueryAccounts
    [] name = "IssueApiToken" -> QueryIssueApiToken
    [] name = "UserID" -> QueryMe
    [] name \in {"CreateOrder", "CreateOrderAsk", "CreateOrderBid"} ->
         << "mutation", " ", "createMarketOrder" >>
    [] OTHER -> << "query", " ", name >>

\* the side createOrder is called with: CreateOrder is CreateOrderBid
SideOf(name) == IF name = "CreateOrderAsk" THEN << "ask" >> ELSE << "bid" >>

\* the request an operation builds from its arguments and hands to the core
OperationRequest(name, args) ==
  [Query |-> QueryOf(name),
   Variables |->
     CASE name = "Depth" ->
            JObj(<< Member("market", JStr(args.asset)), Member("limit", JNum(args.n)),
                    Member("interval", JNum(args.m)) >>)
       [] name = "Deposits" ->
            JObj(<< Member("assets", JArr(<< JStr(args.asset) >>)),
                    Member("offset", JNum(args.n)), Member("limit", JNum(args.m)) >>)
       [] name = "Order" -> JObj(<< Member("id", JNum(args.n)) >>)
       [] name \in {"CreateOrder", "CreateOrderAsk", "CreateOrderBid"} ->
            JObj(<< Member("market", JStr(args.asset)),
                    Member("amount", JStr(FormatInt(args.n))),
                    Member("side", JStr(SideOf(name))) >>)
       [] name = "Withdraw" ->
            JObj(<< Member("asset", JStr(args.asset)),
                    Member("amount", JStr(FormatInt(args.n))),
                    Member("address", JStr(args.text)) >>)
       [] name = "LightningNodeReachable" ->
            JObj(<< Member("asset", JStr(args.asset)),
                    Member("identityKey", JStr(args.text)) >>)
       [] name = "LightningCreateInvoice" ->
            JObj(<< Member("asset", JStr(args.asset)),
                    Member("amount", JStr(FormatInt(args.n))) >>)
       [] name = "LightningWithdraw" ->
            JObj(<< Member("asset", JStr(args.asset)), Member("invoice", JStr(args.text)) >>)
       [] name = "Accounts" -> JObj(<< Member("assets", JStrings(args.list)) >>)
       [] name = "Markets" ->
            JObj(<< Member("markets", JStrings(args.list)), Member("period", JNum(args.n)) >>)
       [] name = "Deals" ->
            JObj(<< Member("markets", JStrings(args.list)), Member("limit", JNum(args.n)) >>)
       [] name = "Tickers" -> JObj(<< Member("markets", JStrings(args.list)) >>)
       [] OTHER -> JNull]

\* where the result of an operation lies in the response ...
DataPath(name) ==
  << << "data" >> >> \o
  CASE name = "Me"       -> << << "me" >> >>
    [] name = "UserID"   -> << << "me" >>, << "id" >> >>
    [] name = "Depth"    -> << << "depth" >> >>
    [] name = "Deposits" -> << << "balanceUpdateRecords" >> >>
    [] name = "Order"    -> << << "order" >> >>
    [] name \in {"CreateOrder", "CreateOrderAsk", "CreateOrderBid"} ->
                            << << "createMarketOrder" >> >>
    [] name = "Withdraw" -> << << "withdrawWithBlockchain" >> >>
    [] name = "LightningNodeReachable" -> << << "checkReachable" >> >>
    [] name = "Info"     -> << << "info" >> >>
    [] name = "LightningCreateInvoice" -> << << "generateLightningInvoice" >> >>
    [] name = "LightningWithdraw" -> << << "withdrawWithLightning" >> >>
    [] name = "Accounts" -> << << "accounts" >> >>
    [] name = "IssueApiToken" -> << << "issueApiToken" >> >>
    [] name = "Deals"    -> << << "deals" >> >>
    [] OTHER             -> << << "markets" >> >>

\* ... and its JSON type
DataType(name) ==
  CASE name \in {"UserID", "LightningCreateInvoice", "IssueApiToken"} -> "str"
    [] name \in {"Deposits", "Accounts", "Markets", "Deals", "Tickers"} -> "arr"
    [] name = "LightningNodeReachable" -> "bool"
    [] OTHER -> "obj"

\* the zero value of a field: "" for a string, the empty struct, false, the
\* nil slice
ZeroValue(t) ==
  CASE t = "str" -> JStr(Empty) [] t = "obj" -> JObj(<< >>) [] t = "bool" -> JBool(FALSE)
    [] OTHER -> JNull

\* what an operation returns next to a transport or decode error: "", Me{},
\* false, nil for Deposits and Tickers, the empty non-nil slice for Accounts,
\* Markets and Deals
ZeroResult(name) ==
  CASE name \in {"Accounts", "Markets", "Deals"} -> JArr(<< >>)
    [] OTHER -> ZeroValue(DataType(name))

DecodeFail == [ok |-> FALSE, v |-> JNull]

RECURSIVE Walk(_, _, _)
\* json.Unmarshal into nested struct fields: null and absent members leave
\* the zero value, a member of another JSON type is an error
Walk(v, path, t) ==
  IF v.t = "null" THEN [ok |-> TRUE, v |-> ZeroValue(t)]
  ELSE IF path = << >> THEN (IF v.t = t THEN [ok |-> TRUE, v |-> v] ELSE DecodeFail)
  ELSE IF v.t # "obj" THEN DecodeFail
  ELSE Walk(Field(v, Head(path)), Tail(path), t)

\* json.Unmarshal into an int field
DecodeInt(v) ==
  CASE v.t = "null" -> [ok |-> TRUE, n |-> 0]
    [] v.t = "num"  -> [ok |-> TRUE, n |-> v.n]
    [] OTHER        -> [ok |-> FALSE, n |-> 0]

\* json.Unmarshal into a responseErrorLocation
DecodeLocation(v) ==
  IF v.t = "null" THEN [ok |-> TRUE, v |-> Location(0, 0)]
  ELSE IF v.t # "obj" THEN [ok |-> FALSE, v |-> Location(0, 0)]
  ELSE LET l == DecodeInt(Field(v, << "line" >>))
           c == DecodeInt(Field(v, << "column" >>)) IN
       [ok |-> l.ok /\ c.ok, v |-> Location(l.n, c.n)]

\* json.Unmarshal into a []responseErrorLocation
DecodeLocations(v) ==
  IF v.t = "null" THEN [ok |-> TRUE, v |-> << >>]
  ELSE IF v.t # "arr" THEN [ok |-> FALSE, v |-> << >>]
  ELSE [ok |-> \A i \in 1..Len(v.kv) : DecodeLocation(Items(v)[i]).ok,
        v |-> [i \in 1..Len(v.kv) |-> DecodeLocation(Items(v)[i]).v]]

\* json.Unmarshal into a responseError
DecodeResponseError(v) ==
  LET zero == [Message |-> Empty, Locations |-> << >>] IN
  IF v.t = "null" THEN [ok |-> TRUE, v |-> zero]
  ELSE IF v.t # "obj" THEN [ok |-> FALSE, v |-> zero]
  ELSE LET m == Walk(Field(v, << "message" >>), << >>, "str")
           l == DecodeLocations(Field(v, << "locations" >>)) IN
       [ok |-> m.ok /\ l.ok, v |-> [Message |-> m.v.s, Locations |-> l.v]]

\* json.Unmarshal into responseBase.Errors
DecodeErrors(v) ==
  IF v.t = "null" THEN [ok |-> TRUE, v |-> NilSlice]
  ELSE IF v.t # "arr" THEN [ok |-> FALSE, v |-> NilSlice]
  ELSE [ok |-> \A i \in 1..Len(v.kv) : DecodeResponseError(Items(v)[i]).ok,
        v |-> MakeSlice([i \in 1..Len(v.kv) |-> DecodeResponseError(Items(v)[i]).v])]

\* response bytes: text that is not JSON, or a JSON document
NotJSON == [json |-> FALSE, doc |-> JNull]
JSONDoc(v) == [json |-> TRUE, doc |-> v]

\* json.Unmarshal(respJSON, &resp) for the response struct of an operation
Unmarshal(body, name) ==
  LET zero == [Errors |-> NilSlice, Data |-> ZeroValue(DataType(name))] IN
  IF ~body.json THEN [ok |-> FALSE, resp |-> zero]
  ELSE IF body.doc.t = "null" THEN [ok |-> TRUE, resp |-> zero]
  ELSE IF body.doc.t # "obj" THEN [ok |-> FALSE, resp |-> zero]
  ELSE LET e == DecodeErrors(Field(body.doc, << "errors" >>))
           d == Walk(body.doc, DataPath(name), DataType(name)) IN
       IF e.ok /\ d.ok THEN [ok |-> TRUE, resp |-> [Errors |-> e.v, Data |-> d.v]]
       ELSE [ok |-> FALSE, resp |-> zero]

\* the text an operation puts before the error of the core ...
TransportPrefix(name) ==
  IF name = "IssueApiToken" THEN "unable to do request: " ELSE "failed to do request: "

\* ... and before the error of json.Unmarshal
DecodePrefix(name) ==
  IF name = "IssueApiToken" THEN "unable to json.Unmarshal resp: "
  ELSE "failed to json.Unmarshal resp: "

\* slip: no operation keeps the decoded data when the exchange reports errors
ReturnsDataNever(name) == FALSE

\* the operations that hand back the decoded data next to an exchange error
ReturnsData(name) == name \in {"Accounts", "IssueApiToken", "Markets", "Deals"}

\* slip: every operation hands back the decoded data next to an exchange error
PerformKeepData(name, ans) ==
  LET u == Unmarshal(ans.body, name) IN
  IF ~ans.err.nil
  THEN [value |-> ZeroResult(name), decoded |-> FALSE,
        err |-> ErrorsNew(<< TransportPrefix(name) >> \o ans.err.msg)]
  ELSE IF ~u.ok
  THEN [value |-> ZeroResult(name), decoded |-> TRUE,
        err |-> ErrorsNew(<< DecodePrefix(name), "json: cannot unmarshal" >>)]
  ELSE IF ~Error(u.resp).nil
  THEN [value |-> u.resp.Data, decoded |-> TRUE,
        err |-> ErrorsNew(<< "exchange error: " >> \o Error(u.resp).msg)]
  ELSE [value |-> u.resp.Data, decoded |-> TRUE, err |-> NilError]

\* slip: the body is decoded before the error of the core is looked at
PerformDecodeFirst(name, ans) ==
  LET u == Unmarshal(ans.body, name) IN
  IF ~u.ok
  THEN [value |-> ZeroResult(name), decoded |-> TRUE,
        err |-> ErrorsNew(<< DecodePrefix(name), "json: cannot unmarshal" >>)]
  ELSE IF ~ans.err.nil
  THEN [value |-> ZeroResult(name), decoded |-> TRUE,
        err |-> ErrorsNew(<< TransportPrefix(name) >> \o ans.err.msg)]
  ELSE IF ~Error(u.resp).nil
  THEN [value |-> IF ReturnsData(name) THEN u.resp.Data ELSE ZeroResult(name), decoded |-> TRUE,
        err |-> ErrorsNew(<< "exchange error: " >> \o Error(u.resp).msg)]
  ELSE [value |-> u.resp.Data, decoded |-> TRUE, err |-> NilError]

\* an operation after c.do has answered: the error of the core, then
\* json.Unmarshal, then resp.Error(), then the data
Perform(name, ans) ==
  LET u == Unmarshal(ans.body, name) IN
  IF ~ans.err.nil
  THEN [value |-> ZeroResult(name), decoded |-> FALSE,
        err |-> ErrorsNew(<< TransportPrefix(name) >> \o ans.err.msg)]
  ELSE IF ~u.ok
  THEN [value |-> ZeroResult(name), decoded |-> TRUE,
        err |-> ErrorsNew(<< DecodePrefix(name), "json: cannot unmarshal" >>)]
  ELSE IF ~Error(u.resp).nil
  THEN [value |-> IF ReturnsData(name) THEN u.resp.Data ELSE ZeroResult(name), decoded |-> TRUE,
        err |-> ErrorsNew(<< "exchange error: " >> \o Error(u.resp).msg)]
  ELSE [value |-> u.resp.Data, decoded |-> TRUE, err |-> NilError]

\* slip: the check of the arguments is left out
ValidateNothing(name, args) == NilError

\* the check an operation makes of its arguments before it builds a request:
\* Tickers wants at least one market
Validate(name, args) ==
  IF name = "Tickers" /\ Len(args.list.elems) = 0
  THEN ErrorsNew(<< "not empty markets expected" >>)
  ELSE NilError

\* no request built
NoEnvelope == [Query |-> Empty, Variables |-> JNull]

NoResult == [value |-> JNull, decoded |-> FALSE, err |-> NilError]

\* slip: the core is invoked a second time when it reported an error
InvokeAgain(name, args, ans, hasCore) ==
  LET v == Validate(name, args) IN
  IF ~v.nil
  THEN [request |-> NoEnvelope, invoked |-> 0, panicked |-> FALSE,
        result |-> [value |-> ZeroResult(name), decoded |-> FALSE, err |-> v]]
  ELSE IF ~hasCore
  THEN [request |-> OperationRequest(name, args), invoked |-> 0, panicked |-> TRUE,
        result |-> NoResult]
  ELSE [request |-> OperationRequest(name, args),
        invoked |-> IF ans.err.nil THEN 1 ELSE 2, panicked |-> FALSE,
        result |-> Perform(name, ans)]

\* a whole operation: the check of the arguments, the request, one call of
\* c.core.do, and the stages after it; a client without a core panics at the
\* call
Invoke(name, args, ans, hasCore) ==
  LET v == Validate(name, args) IN
  IF ~v.nil
  THEN [request |-> NoEnvelope, invoked |-> 0, panicked |-> FALSE,
        result |-> [value |-> ZeroResult(name), decoded |-> FALSE, err |-> v]]
  ELSE IF ~hasCore
  THEN [request |-> OperationRequest(name, args), invoked |-> 0, panicked |-> TRUE,
        result |-> NoResult]
  ELSE [request |-> OperationRequest(name, args), invoked |-> 1, panicked |-> FALSE,
        result |-> Perform(name, ans)]

\* ---- what the core can answer an operation with

OneError == JArr(<< JObj(<< Member("message", JStr(<< "some error" >>)) >>) >>)

TwoErrors ==
  JArr(<< JObj(<< Member("message", JStr(<< "some error" >>)),
                  Member("locations",
                         JArr(<< JObj(<< Member("line", JNum(123)), Member("column", JNum(12)) >>) >>)) >>),
          JObj(<< Member("message", JStr(<< "second error" >>)) >>) >>)

\* a value of a JSON type as the exchange would send it
Sample(t) ==
  CASE t = "str" -> JStr(<< "payload" >>)
    [] t = "bool" -> JBool(TRUE)
    [] t = "arr" -> JArr(<< JObj(<< Member("id", JNum(1)) >>) >>)
    [] OTHER -> JObj(<< Member("id", JNum(1)) >>)

DataOf(name) ==
  CASE name = "UserID" ->
         JObj(<< Member("me", JObj(<< Member("id", JStr(<< "some-id" >>)) >>)) >>)
    [] name = "Depth" -> JObj(<< Member("depth", JObj(<< Member("asks", JArr(<< >>)) >>)) >>)
    [] name = "Accounts" ->
         JObj(<< Member("accounts", JArr(<< JObj(<< Member("asset", JStr(<< "BTC" >>)) >>) >>)) >>)
    [] name = "IssueApiToken" -> JObj(<< Member("issueApiToken", JStr(<< "token" >>)) >>)
    [] OTHER -> JObj(<< << DataPath(name)[2], Sample(DataType(name)) >> >>)

Bodies ==
  {NotJSON,
   JSONDoc(JObj(<< Member("errors", JNum(123)), Member("data", JStr(<< "qwerty" >>)) >>)),
   JSONDoc(JObj(<< Member("errors", OneError) >>)),
   JSONDoc(JObj(<< Member("errors", TwoErrors) >>)),
   JSONDoc(JObj(<< Member("errors", JArr(<< >>)), Member("data", DataOf("UserID")) >>))}
    \cup {JSONDoc(JObj(<< Member("data", DataOf(name)) >>)) : name \in Operations}
    \cup {JSONDoc(JObj(<< Member("errors", OneError), Member("data", DataOf(name)) >>)) :
            name \in Operations}

\* what do returns: bytes and no error, or an error next to whatever bytes
CoreAnswers ==
  {[body |-> b, err |-> NilError] : b \in Bodies}
    \cup {[body |-> b, err |-> ErrorsNew(<< "fail" >>)] :
            b \in {NotJSON, JSONDoc(JObj(<< Member("data", DataOf("UserID")) >>))}}

\* ------------------------------------------------------------------- state
VARIABLES
  core,    \* the shared core: kind, url, authToken, macaroon, nonce, jwt
  loc,     \* per goroutine: position in do and its local variables
  calls,   \* one record per call of do, in the order the calls started
  rb,      \* a decoded response whose Error method is called
  rbError, \* what rb.Error() returned, once it has been called
  newClient, \* the arguments of NewClient and, once called, what it returned
  operation, \* the last operation called on the client and what it returned
  instances  \* the cores NewClient has made, each with its own fields

vars == << core, loc, calls, rb, rbError, newClient, operation, instances >>

\* the state of do
doVars == << core, loc, calls >>

\* the state of the units that are exercised on their own
errorVars == << rb, rbError >>
clientVars == << newClient, operation >>
instanceVars == << instances >>
unitVars == << errorVars, clientVars, instanceVars >>

NotCalled == [called |-> FALSE, err |-> NilError]

\* NewClient not yet called with its arguments
Arguments(url, macaroon, jwt) ==
  [url |-> url, macaroon |-> macaroon, jwt |-> jwt, called |-> FALSE,
   client |-> NilClient, err |-> NilError]

\* no core made yet; on is the core do was last called on
NoInstances == [cores |-> << >>, on |-> 0]

\* no operation called yet
NoAnswer == [body |-> NotJSON, err |-> NilError]

NoOperation ==
  [name |-> "none", args |-> NoArgs, answer |-> NoAnswer, hasCore |-> FALSE,
   request |-> NoEnvelope, authenticated |-> FALSE, invoked |-> 0, panicked |-> FALSE,
   result |-> NoResult]

IdleLoc == [pc |-> "idle", id |-> 0, reg |-> 0, httpReq |-> NoRequest]

\* the nonce of a call that has not reached auth.AddNonce
NoNonce == -1

\* what the network gives a call: no connection, or a response with a status
\* and a body whose read succeeds or breaks off
NoResponse == [net |-> "none", status |-> 0, body |-> Empty]
Down == [net |-> "down", status |-> 0, body |-> Empty]
Answer(status, body) == [net |-> "ok", status |-> status, body |-> body]
Truncated(status, body) == [net |-> "readError", status |-> status, body |-> body]

\* the calls that have returned
Returned == {j \in 1..Len(calls) : calls[j].out # "running"}

NewCall(p, authenticated, r) ==
  [p |-> p, r |-> r, authenticated |-> authenticated, before |-> Returned,
   nonce |-> NoNonce, tm |-> 0, token |-> Empty, httpReq |-> NoRequest, sent |-> FALSE,
   out |-> "running", body |-> Empty, err |-> NoError, attempts |-> 0,
   resp |-> NoResponse]

\* &graphqlBackend{url, authToken}
NewBackend(url, authToken) ==
  [kind |-> "graphqlBackend", url |-> url, authToken |-> authToken,
   macaroon |-> << >>, nonce |-> 0, jwt |-> Empty]

\* &graphQLCore{url, macaroon, jwt}; the nonce starts at its zero value
NewCore(url, macaroon, jwt) ==
  [kind |-> "graphQLCore", url |-> url, authToken |-> Empty,
   macaroon |-> macaroon, nonce |-> 0, jwt |-> jwt]

Init ==
  /\ core \in {NewBackend(GoodURL, t) : t \in Tokens}
              \cup {NewCore(GoodURL, Root, j) : j \in {Empty} \cup Tokens}
              \cup {NewCore(BadURL, Root, Empty)}
  /\ loc = [p \in Procs |-> IdleLoc]
  /\ calls = << >>
  /\ rb = [Errors |-> NilSlice]
  /\ rbError = NotCalled
  /\ newClient = Arguments(GoodURL, GoodMacaroon, Empty)
  /\ operation = NoOperation
  /\ instances = NoInstances

\* do of the revision whose callers pass the authenticated flag (Client.Depth
\* calls c.do(false, req)): an unauthenticated call in macaroon mode derives
\* no credential; bearer configurations authenticate every call
SkipsCredential(authenticated) == ~authenticated /\ core.kind = "graphQLCore" /\ core.jwt = Empty

\* the request of such a call: the content type and no Authorization
UnauthenticatedRequest(q) == SetContentType(q)

\* slip: the macaroon is preferred to the jwt when the core has both
CallMacaroonFirst(p, authenticated, r) ==
  /\ loc[p].pc = "idle"
  /\ Len(calls) < MaxCalls
  /\ LET id == Len(calls) + 1
         c == NewCall(p, authenticated, r)
         q == NewRequest(core.url, MarshalRequest(r))
         goto(pc, hq) == /\ loc' = [loc EXCEPT ![p] = [IdleLoc EXCEPT !.pc = pc, !.id = id, !.httpReq = hq]]
                         /\ calls' = Append(calls, c)
         fail(out) == /\ loc' = loc
                      /\ calls' = Append(calls, [c EXCEPT !.out = out, !.err = ErrorOf(out)]) IN
     IF ~Serializable(r.Variables) THEN fail("errMarshal")
     ELSE IF core.url = BadURL THEN fail("errNewRequest")
     ELSE IF core.kind = "graphqlBackend"
     THEN goto("send", SetAuthorization(SetContentType(q), Bearer, core.authToken))
     ELSE IF SkipsCredential(authenticated) THEN goto("send", UnauthenticatedRequest(q))
     ELSE IF core.macaroon # << >> THEN goto("load", q)
     ELSE goto("send", SetAuthorization(q, Bearer, core.jwt))
  /\ UNCHANGED << core, unitVars >>

\* a caller enters do: json.Marshal, http.NewRequest and the choice of the
\* credential; none of them touches a field that changes
Call(p, authenticated, r) ==
  /\ loc[p].pc = "idle"
  /\ Len(calls) < MaxCalls
  /\ LET id == Len(calls) + 1
         c == NewCall(p, authenticated, r)
         q == NewRequest(core.url, MarshalRequest(r))
         goto(pc, hq) == /\ loc' = [loc EXCEPT ![p] = [IdleLoc EXCEPT !.pc = pc, !.id = id, !.httpReq = hq]]
                         /\ calls' = Append(calls, c)
         fail(out) == /\ loc' = loc
                      /\ calls' = Append(calls, [c EXCEPT !.out = out, !.err = ErrorOf(out)]) IN
     IF ~Serializable(r.Variables) THEN fail("errMarshal")
     ELSE IF core.url = BadURL THEN fail("errNewRequest")
     ELSE IF core.kind = "graphqlBackend"
     THEN goto("send", SetAuthorization(SetContentType(q), Bearer, core.authToken))
     ELSE IF SkipsCredential(authenticated) THEN goto("send", UnauthenticatedRequest(q))
     ELSE IF core.jwt = Empty THEN goto("load", q)
     ELSE goto("send", SetAuthorization(q, Bearer, core.jwt))
  /\ UNCHANGED << core, unitVars >>

\* c.nonce++ is a read of the field ...
NonceLoad(p) ==
  /\ loc[p].pc = "load"
  /\ loc' = [loc EXCEPT ![p].pc = "store", ![p].reg = core.nonce]
  /\ UNCHANGED << core, calls, unitVars >>

\* slip: the value read is written back without the increment
NonceStoreSame(p) ==
  /\ loc[p].pc = "store"
  /\ core' = [core EXCEPT !.nonce = loc[p].reg]
  /\ loc' = [loc EXCEPT ![p].pc = "derive"]
  /\ UNCHANGED << calls, unitVars >>

\* ... followed by a write of the value read plus one; nothing orders the
\* two against the accesses of other goroutines
NonceStore(p) ==
  /\ loc[p].pc = "store"
  /\ core' = [core EXCEPT !.nonce = loc[p].reg + 1]
  /\ loc' = [loc EXCEPT ![p].pc = "derive", ![p].reg = loc[p].reg + 1]
  /\ UNCHANGED << calls, unitVars >>

\* the value the unsynchronised read of c.nonce in the call of auth.AddNonce
\* can yield: the field as it is in memory now, or the value this goroutine
\* has just computed
NonceRead(p) == {core.nonce, loc[p].reg}

Derivations == {"ok", "errAddNonce", "errAddCurrentTime", "errEncode"}

\* slip: the macaroon with the two caveats is stored back in the core
DeriveInPlace(p, t, d) ==
  /\ loc[p].pc = "derive"
  /\ \E n \in NonceRead(p) :
       LET id == loc[p].id
           m == AddCurrentTime(AddNonce(core.macaroon, n), t)
           token == EncodeMacaroon(m)
           hq == SetAuthorization(SetContentType(loc[p].httpReq), Macaroon, token) IN
       IF d = "ok"
       THEN /\ loc' = [loc EXCEPT ![p].pc = "send", ![p].httpReq = hq]
            /\ calls' = [calls EXCEPT ![id].nonce = n, ![id].tm = t, ![id].token = token]
            /\ core' = [core EXCEPT !.macaroon = m]
       ELSE /\ loc' = [loc EXCEPT ![p] = IdleLoc]
            /\ calls' = [calls EXCEPT ![id].nonce = n, ![id].out = d, ![id].err = ErrorOf(d)]
            /\ core' = core
  /\ UNCHANGED unitVars

\* auth.AddNonce, auth.AddCurrentTime, auth.EncodeMacaroon and the two
\* headers; t is the wall clock at the call of auth.AddCurrentTime
Derive(p, t, d) ==
  /\ loc[p].pc = "derive"
  /\ \E n \in NonceRead(p) :
       LET id == loc[p].id
           token == EncodeMacaroon(AddCurrentTime(AddNonce(core.macaroon, n), t))
           hq == SetAuthorization(SetContentType(loc[p].httpReq), Macaroon, token) IN
       IF d = "ok"
       THEN /\ loc' = [loc EXCEPT ![p].pc = "send", ![p].httpReq = hq]
            /\ calls' = [calls EXCEPT ![id].nonce = n, ![id].tm = t, ![id].token = token]
       ELSE /\ loc' = [loc EXCEPT ![p] = IdleLoc]
            /\ calls' = [calls EXCEPT ![id].nonce = n, ![id].out = d, ![id].err = ErrorOf(d)]
  /\ UNCHANGED << core, unitVars >>

Outcomes ==
  {Down, Answer(200, ResponseBody), Answer(200, JSONBody),
   Answer(301, ResponseBody), Answer(500, JSONBody), Truncated(200, ResponseBody)}

\* slip: a failed attempt is repeated instead of being reported
SendRetry(p, outcome) ==
  /\ loc[p].pc = "send"
  /\ LET id == loc[p].id IN
     IF outcome.net = "down"
     THEN /\ loc' = loc
          /\ calls' = [calls EXCEPT ![id].attempts = @ + 1, ![id].resp = outcome]
     ELSE /\ loc' = [loc EXCEPT ![p] = IdleLoc]
          /\ calls' = [calls EXCEPT ![id].out = "ok", ![id].body = outcome.body,
                                    ![id].attempts = @ + 1, ![id].resp = outcome,
                                    ![id].sent = TRUE, ![id].httpReq = loc[p].httpReq]
  /\ UNCHANGED << core, unitVars >>

\* slip: the body is returned whatever the status
SendAnyStatus(p, outcome) ==
  /\ loc[p].pc = "send"
  /\ loc' = [loc EXCEPT ![p] = IdleLoc]
  /\ LET id == loc[p].id
         out == IF outcome.net = "down" THEN "errDo"
                ELSE IF outcome.net = "readError" THEN "errRead" ELSE "ok" IN
     calls' = [calls EXCEPT ![id].out = out,
                            ![id].err = ErrorOf(out),
                            ![id].body = IF out = "ok" THEN outcome.body ELSE Empty,
                            ![id].attempts = @ + 1,
                            ![id].resp = outcome,
                            ![id].sent = (outcome.net # "down"),
                            ![id].httpReq = loc[p].httpReq]
  /\ UNCHANGED << core, unitVars >>

\* slip: the bytes read are not handed to the caller
SendNoBody(p, outcome) ==
  /\ loc[p].pc = "send"
  /\ loc' = [loc EXCEPT ![p] = IdleLoc]
  /\ LET id == loc[p].id
         out == IF outcome.net = "down" THEN "errDo"
                ELSE IF outcome.status # 200 THEN "errStatus"
                ELSE IF outcome.net = "readError" THEN "errRead" ELSE "ok" IN
     calls' = [calls EXCEPT ![id].out = out,
                            ![id].err = IF out = "errStatus"
                                        THEN << "unexpected response status: " >> \o StatusText(outcome.status)
                                        ELSE ErrorOf(out),
                            ![id].body = Empty,
                            ![id].attempts = @ + 1,
                            ![id].resp = outcome,
                            ![id].sent = (outcome.net # "down"),
                            ![id].httpReq = loc[p].httpReq]
  /\ UNCHANGED << core, unitVars >>

\* (&http.Client{}).Do(httpReq), the status check and ioutil.ReadAll: one
\* attempt, then the call returns
Send(p, outcome) ==
  /\ loc[p].pc = "send"
  /\ loc' = [loc EXCEPT ![p] = IdleLoc]
  /\ LET id == loc[p].id
         out == IF outcome.net = "down" THEN "errDo"
                ELSE IF outcome.status # 200 THEN "errStatus"
                ELSE IF outcome.net = "readError" THEN "errRead" ELSE "ok" IN
     calls' = [calls EXCEPT ![id].out = out,
                            ![id].err = IF out = "errStatus"
                                        THEN << "unexpected response status: " >> \o StatusText(outcome.status)
                                        ELSE ErrorOf(out),
                            ![id].body = IF out = "ok" THEN outcome.body ELSE Empty,
                            ![id].attempts = @ + 1,
                            ![id].resp = outcome,
                            ![id].sent = (outcome.net # "down"),
                            ![id].httpReq = loc[p].httpReq]
  /\ UNCHANGED << core, unitVars >>

Next ==
  \/ \E p \in Procs, op \in Callers : Call(p, AuthenticatedOf(op), RequestOf(op))
  \/ \E p \in Procs : NonceLoad(p)
  \/ \E p \in Procs : NonceStore(p)
  \/ \E p \in Procs, t \in 0..MaxTime, d \in Derivations : Derive(p, t, d)
  \/ \E p \in Procs, o \in Outcomes : Send(p, o)

Spec == Init /\ [][Next]_vars

\* ---- callers that never overlap: a call starts only when no call is running
AllIdle == \A p \in Procs : loc[p].pc = "idle"

CallSeq(p, authenticated, r) == AllIdle /\ Call(p, authenticated, r)

NextSeq ==
  \/ \E p \in Procs, op \in Callers : CallSeq(p, AuthenticatedOf(op), RequestOf(op))
  \/ \E p \in Procs : NonceLoad(p)
  \/ \E p \in Procs : NonceStore(p)
  \/ \E p \in Procs, t \in 0..MaxTime, d \in Derivations : Derive(p, t, d)
  \/ \E p \in Procs, o \in Outcomes : Send(p, o)

SpecSeq == Init /\ [][NextSeq]_vars

\* ---- responseBase.Error on its own: a decoded response, then the call
InitError ==
  /\ core = NewCore(GoodURL, Root, Empty)
  /\ loc = [p \in Procs |-> IdleLoc]
  /\ calls = << >>
  /\ rb \in ResponseBases
  /\ rbError = NotCalled
  /\ newClient = Arguments(GoodURL, GoodMacaroon, Empty)
  /\ operation = NoOperation
  /\ instances = NoInstances

CallError ==
  /\ ~rbError.called
  /\ rbError' = [called |-> TRUE, err |-> Error(rb)]
  /\ UNCHANGED << rb, doVars, clientVars, instanceVars >>

NextError == CallError

SpecError == InitError /\ [][NextError]_vars

\* ---- the client on its own: NewClient, then operations whose core answers
\* as do can
InitClient ==
  /\ core = NewCore(GoodURL, Root, Empty)
  /\ loc = [p \in Procs |-> IdleLoc]
  /\ calls = << >>
  /\ rb = [Errors |-> NilSlice]
  /\ rbError = NotCalled
  /\ newClient \in {Arguments(u, m, j) : u \in {GoodURL, BadURL}, m \in MacaroonStrings,
                                         j \in {Empty} \cup Tokens}
  /\ operation = NoOperation
  /\ instances = NoInstances

CallNewClient ==
  /\ ~newClient.called
  /\ LET r == NewClient(newClient.url, newClient.macaroon, newClient.jwt) IN
     newClient' = [newClient EXCEPT !.called = TRUE, !.client = r.client, !.err = r.err]
  /\ UNCHANGED << operation, doVars, errorVars, instanceVars >>

\* the record of a call of an operation
Called(name, args, ans, hasCore) ==
  LET i == Invoke(name, args, ans, hasCore) IN
  [name |-> name, args |-> args, answer |-> ans, hasCore |-> hasCore,
   request |-> i.request, authenticated |-> AuthenticatedOf(name),
   invoked |-> i.invoked, panicked |-> i.panicked, result |-> i.result]

\* an operation is called on the client NewClient returned
Operate(name, args, ans) ==
  /\ operation = NoOperation
  /\ newClient.called
  /\ ~newClient.client.nil
  /\ operation' = Called(name, args, ans, TRUE)
  /\ UNCHANGED << newClient, doVars, errorVars, instanceVars >>

\* an operation is called on a client that has no core, &Client{core: nil}
OperateBare(name, args) ==
  /\ operation = NoOperation
  /\ operation' = Called(name, args, NoAnswer, FALSE)
  /\ UNCHANGED << newClient, doVars, errorVars, instanceVars >>

\* the operation has returned; the next one starts from nothing
Return ==
  /\ operation # NoOperation
  /\ operation' = NoOperation
  /\ UNCHANGED << newClient, doVars, errorVars, instanceVars >>

NextClient ==
  \/ CallNewClient
  \/ Return
  \/ \E name \in Operations, args \in OperationArgs, ans \in CoreAnswers :
       Operate(name, args, ans)
  \/ \E name \in Operations, args \in OperationArgs : OperateBare(name, args)

SpecClient == InitClient /\ [][NextClient]_vars

\* ---- several clients side by side: each NewClient makes a graphQLCore of
\* its own, whose nonce field starts at zero
InitInstances ==
  /\ core = NewCore(GoodURL, Root, Empty)
  /\ loc = [p \in Procs |-> IdleLoc]
  /\ calls = << >>
  /\ rb = [Errors |-> NilSlice]
  /\ rbError = NotCalled
  /\ newClient = Arguments(GoodURL, GoodMacaroon, Empty)
  /\ operation = NoOperation
  /\ instances = NoInstances

\* NewClient(url, macaroon, jwt) with a macaroon that decodes
NewInstance(jwt) ==
  /\ Len(instances.cores) < MaxInstances
  /\ instances' = [cores |-> Append(instances.cores, NewCore(GoodURL, Root, jwt)), on |-> 0]
  /\ UNCHANGED << doVars, errorVars, clientVars >>

\* slip: the counter is one for all cores
DoOnShared(i) ==
  /\ i \in 1..Len(instances.cores)
  /\ instances.cores[i].nonce < MaxNonce
  /\ instances' =
       [cores |-> [j \in 1..Len(instances.cores) |->
                     IF instances.cores[i].jwt = Empty
                     THEN [instances.cores[j] EXCEPT !.nonce = instances.cores[i].nonce + 1]
                     ELSE instances.cores[j]],
        on |-> i]
  /\ UNCHANGED << doVars, errorVars, clientVars >>

\* a call of do on the i-th core, from c.nonce++ to its return: the core
\* without a jwt counts the call in its own nonce field
DoOn(i) ==
  /\ i \in 1..Len(instances.cores)
  /\ instances.cores[i].nonce < MaxNonce
  /\ instances' =
       [cores |-> IF instances.cores[i].jwt = Empty
                  THEN [instances.cores EXCEPT ![i].nonce = @ + 1]
                  ELSE instances.cores,
        on |-> i]
  /\ UNCHANGED << doVars, errorVars, clientVars >>

NextInstances ==
  \/ \E jwt \in {Empty} \cup Tokens : NewInstance(jwt)
  \/ \E i \in 1..MaxInstances : DoOn(i)

SpecInstances == InitInstances /\ [][NextInstances]_vars

\* ------------------------------------------------------------ properties
CallIds == 1..Len(calls)

\* the core derives a macaroon for its requests
MacaroonMode == core.kind = "graphQLCore" /\ core.jwt = Empty

\* the core sends a fixed bearer token
BearerMode == core.kind = "graphqlBackend" \/ core.jwt # Empty

BearerToken == IF core.kind = "graphqlBackend" THEN core.authToken ELSE core.jwt

DeriveErrors == Derivations \ {"ok"}

\* the call went as far as the increment of the nonce
ReachedIncrement(i) ==
  MacaroonMode /\ calls[i].authenticated /\ calls[i].out \notin {"errMarshal", "errNewRequest"}

\* C1: the nonces attached to the tokens derived by concurrent calls on one
\* graphQLCore are pairwise distinct.
C1_NoncesDistinct ==
  \A i, j \in CallIds :
    (i # j /\ calls[i].token # Empty /\ calls[j].token # Empty)
      => calls[i].nonce # calls[j].nonce

\* C2: when calls never overlap the nonce counter never decreases, and every
\* call that reaches the derivation uses a nonce strictly greater than the
\* nonce of every earlier call.
C2_NonceIncreasing ==
  [][ /\ core'.nonce >= core.nonce
      /\ \A i, j \in 1..Len(calls') :
           (i < j /\ calls'[i].nonce # NoNonce /\ calls'[j].nonce # NoNonce)
             => calls'[i].nonce < calls'[j].nonce ]_vars

C2_Witness ==
  /\ AllIdle
  /\ Len(calls) = 3
  /\ \A i \in CallIds : calls[i].nonce # NoNonce
  /\ core.nonce = 3

\* C3: a call that fails in the derivation of its credential leaves the
\* counter incremented, and its nonce is never used by a call that starts
\* after it has returned.
C3_FailedNonceSkipped ==
  \A i \in CallIds :
    calls[i].out \in DeriveErrors =>
      /\ core.nonce >= 1
      /\ \A j \in CallIds :
           (i \in calls[j].before /\ calls[j].nonce # NoNonce)
             => calls[j].nonce # calls[i].nonce

\* C4: the increment precedes the send, and the retry of an operation whose
\* attempt failed on the network or on the status carries a larger nonce than
\* the failed attempt.
C4_RetryNewNonce ==
  /\ \A p \in Procs :
       (loc[p].pc = "send" /\ calls[loc[p].id].nonce # NoNonce) => core.nonce >= 1
  /\ \A i, j \in CallIds :
       (/\ i < j
        /\ calls[i].p = calls[j].p
        /\ calls[i].r = calls[j].r
        /\ calls[i].out \in {"errDo", "errStatus"}
        /\ calls[i].nonce # NoNonce
        /\ calls[j].nonce # NoNonce)
         => calls[j].nonce > calls[i].nonce

\* C5: an unauthenticated call leaves the counter alone and an authenticated
\* call in macaroon mode adds exactly one to it: once all calls have
\* returned, the counter is the number of authenticated macaroon calls.
C5_NonceCountsAuthenticatedCalls ==
  AllIdle => core.nonce = Cardinality({i \in CallIds : ReachedIncrement(i)})

\* C6: in macaroon mode no two requests carry the same Authorization header.
C6_TokensDiffer ==
  \A i, j \in CallIds :
    (i # j /\ calls[i].sent /\ calls[j].sent
           /\ calls[i].token # Empty /\ calls[j].token # Empty)
      => calls[i].httpReq.header.Authorization # calls[j].httpReq.header.Authorization

\* C7: in bearer mode every request sent carries Authorization "Bearer " +
\* token; no call fails for its credential and the nonce is never touched.
C7_BearerHeader ==
  BearerMode =>
    /\ core.nonce = 0
    /\ \A i \in CallIds :
         /\ calls[i].out \notin DeriveErrors
         /\ calls[i].nonce = NoNonce
         /\ calls[i].sent =>
              calls[i].httpReq.header.Authorization = << "Bearer", " " >> \o BearerToken

C7_Witness ==
  /\ core.kind = "graphQLCore"
  /\ core.jwt # Empty
  /\ \E i, j \in CallIds :
       i # j /\ calls[i].sent /\ calls[j].sent /\ calls[i].out # calls[j].out

C9_ContentTypeAlways ==
  \A i \in CallIds :
    calls[i].sent => calls[i].httpReq.header.ContentType = << "application/json" >>

\* C10: every request sent is a POST to the configured URL whose body is the
\* JSON of the caller's envelope, and decoding the body gives back the query
\* and the variables.
C10_RequestRoundTrip ==
  \A i \in CallIds :
    calls[i].sent =>
      /\ calls[i].httpReq.method = "POST"
      /\ calls[i].httpReq.url = core.url
      /\ calls[i].httpReq.body = MarshalRequest(calls[i].r)
      /\ LET d == UnmarshalRequest(calls[i].httpReq.body) IN
           /\ d.ok
           /\ d.Query = calls[i].r.Query
           /\ d.Variables = AsMap(calls[i].r.Variables)

C10_Witness ==
  \E i, j \in CallIds :
    /\ calls[i].sent /\ calls[i].r = RequestOf("Depth")
    /\ calls[j].sent /\ calls[j].r = RequestOf("UserID")

\* the network answered the call with a response
Answered(i) == calls[i].resp.net \in {"ok", "readError"}

\* C11: a call answered with status 200 and a readable body returns exactly
\* the bytes of that body, JSON or not, and a nil error.
C11_BodyReturnedVerbatim ==
  \A i \in CallIds :
    (calls[i].resp.net = "ok" /\ calls[i].resp.status = 200) =>
      /\ calls[i].out = "ok"
      /\ calls[i].err = NoError
      /\ calls[i].body = calls[i].resp.body

C11_Witness ==
  \E i, j \in CallIds :
    /\ calls[i].resp = Answer(200, ResponseBody) /\ calls[i].body = ResponseBody
    /\ calls[j].resp = Answer(200, JSONBody) /\ calls[j].body = JSONBody

\* C12: a call answered with a status other than 200 returns no bytes and a
\* non-nil error whose text ends with the status text, whatever the body of
\* the response is.
C12_StatusError ==
  \A i \in CallIds :
    (Answered(i) /\ calls[i].resp.status # 200) =>
      /\ calls[i].out = "errStatus"
      /\ calls[i].body = Empty
      /\ calls[i].err # NoError
      /\ calls[i].err[Len(calls[i].err)] =
           (CASE calls[i].resp.status = 301 -> "301 Moved Permanently"
              [] OTHER -> "500 Internal Server Error")

C12_Witness ==
  \E i, j \in CallIds :
    /\ calls[i].resp = Answer(301, ResponseBody) /\ calls[i].out = "errStatus"
    /\ calls[j].resp = Answer(500, JSONBody) /\ calls[j].out = "errStatus"

\* C13: a call makes at most one network attempt, and a call whose attempt
\* found the server down has returned a non-nil error after that single
\* attempt.
C13_SingleAttempt ==
  \A i \in CallIds :
    /\ calls[i].attempts <= 1
    /\ calls[i].resp.net = "down" =>
         /\ calls[i].out = "errDo"
         /\ calls[i].err # NoError
         /\ calls[i].body = Empty
         /\ calls[i].attempts = 1
         /\ \A p \in Procs : loc[p].pc # "idle" => loc[p].id # i

C13_Witness ==
  \E i, j \in CallIds :
    /\ i < j /\ calls[i].p = calls[j].p
    /\ calls[i].out = "errDo" /\ calls[i].attempts = 1
    /\ calls[j].out = "ok" /\ calls[j].attempts = 1

\* C14: a call whose variables cannot be serialized returns the encoding
\* error at once: it builds and sends no request, makes no network attempt
\* and leaves the nonce counter as it was.
C14_UnserializableFailsFirst ==
  [][ \A i \in 1..Len(calls') :
        calls'[i].r.Variables.t = "chan" =>
          /\ calls'[i].out = "errMarshal"
          /\ calls'[i].err # NoError
          /\ calls'[i].body = Empty
          /\ ~calls'[i].sent
          /\ calls'[i].attempts = 0
          /\ calls'[i].httpReq = NoRequest
          /\ calls'[i].nonce = NoNonce
          /\ i > Len(calls) => core'.nonce = core.nonce ]_vars

C14_Witness ==
  /\ MacaroonMode
  /\ core.nonce >= 1
  /\ \E i \in CallIds : i > 1 /\ calls[i].out = "errMarshal" /\ ~calls[i].sent

\* the errors of the response and the first of them
Errs == rb.Errors.elems
First == Errs[1]

\* C15: Error returns nil exactly when the list of errors is nil or empty.
C15_NilIffNoErrors ==
  rbError.called => (rbError.err.nil <=> Len(Errs) = 0)

C15_Witness ==
  /\ rbError.called
  /\ ~rb.Errors.nil /\ Len(Errs) = 0
  /\ rbError.err.nil

\* C16: for a single error the message is the error's text when it has no
\* location, and text + ", location: " + line + ":" + column when it has one.
C16_SingleError ==
  (rbError.called /\ Len(Errs) = 1) =>
    /\ Len(First.Locations) = 0 => rbError.err = [nil |-> FALSE, msg |-> First.Message]
    /\ Len(First.Locations) = 1 =>
         rbError.err = [nil |-> FALSE,
                        msg |-> First.Message \o << ", location: " >>
                                  \o FormatInt(First.Locations[1].Line) \o << ":" >>
                                  \o FormatInt(First.Locations[1].Column)]

C16_Witness ==
  /\ rbError.called
  /\ Len(Errs) = 1
  /\ First.Message # Empty
  /\ First.Locations = << Location(123, 12) >>
  /\ rbError.err.msg = << "some error", ", location: ", "1", "2", "3", ":", "1", "2" >>

RECURSIVE LocationList(_)
\* line:column of every location, in order, with ", " between neighbours
LocationList(ls) ==
  IF Len(ls) = 1 THEN FormatInt(ls[1].Line) \o << ":" >> \o FormatInt(ls[1].Column)
  ELSE LocationList(SubSeq(ls, 1, Len(ls) - 1)) \o << ", " >>
       \o FormatInt(ls[Len(ls)].Line) \o << ":" >> \o FormatInt(ls[Len(ls)].Column)

\* C17: when the first error has more than one location the message ends
\* with text + ", locations: " + every location as line:column, in order,
\* separated by ", "; for a single error that is the whole message.
C17_ManyLocations ==
  (rbError.called /\ Len(Errs) >= 1 /\ Len(First.Locations) > 1) =>
    LET want == First.Message \o << ", locations: " >> \o LocationList(First.Locations)
        got  == rbError.err.msg IN
      /\ ~rbError.err.nil
      /\ Len(got) >= Len(want)
      /\ SubSeq(got, Len(got) - Len(want) + 1, Len(got)) = want
      /\ Len(Errs) = 1 => got = want

C17_Witness ==
  /\ rbError.called
  /\ Len(Errs) = 1
  /\ First.Locations = << Location(123, 12), Location(-1, 0), Location(123, 12) >>
  /\ rbError.err.msg = << "some error", ", locations: ", "1", "2", "3", ":", "1", "2", ", ",
                          "-", "1", ":", "0", ", ", "1", "2", "3", ":", "1", "2" >>

\* C18: for N > 1 errors the message is N + " errors occurred, first one
\* is: " + the message of the first error alone; the later errors do not
\* appear in it.
C18_ManyErrors ==
  (rbError.called /\ Len(Errs) > 1) =>
    rbError.err = [nil |-> FALSE,
                   msg |-> FormatInt(Len(Errs)) \o << " errors occurred, first one is: " >>
                             \o FormatFirst(First)]

C18_Witness ==
  /\ rbError.called
  /\ Len(Errs) = 2
  /\ Errs[1] = [Message |-> << "some error" >>, Locations |-> << Location(123, 12) >>]
  /\ Errs[2] = [Message |-> Empty, Locations |-> << Location(-1, 0), Location(-1, 0) >>]
  /\ rbError.err.msg = << "2", " errors occurred, first one is: ", "some error",
                          ", location: ", "1", "2", "3", ":", "1", "2" >>

\* C19: NewClient with a non-empty macaroon string that does not decode
\* returns the nil client and the decode error; with one that decodes it
\* returns no error and a client whose core holds the URL given and a
\* non-nil root macaroon.
C19_NewClient ==
  newClient.called =>
    /\ newClient.macaroon \in {TruncatedMacaroon, GarbageMacaroon} =>
         /\ newClient.client = NilClient
         /\ ~newClient.err.nil
         /\ newClient.err = DecodeMacaroon(newClient.macaroon).err
    /\ newClient.macaroon = << "user", "=", "7", ";" >> =>
         /\ newClient.err.nil
         /\ ~newClient.client.nil
         /\ newClient.client.core.url = newClient.url
         /\ newClient.client.core.jwt = newClient.jwt
         /\ newClient.client.core.macaroon = [nil |-> FALSE, caveats |-> Root]

C19_Witness ==
  /\ newClient.called
  /\ newClient.macaroon = TruncatedMacaroon
  /\ newClient.jwt # Empty
  /\ newClient.client.nil
  /\ ~newClient.err.nil

BothDataAndErrors ==
  /\ operation.invoked = 1
  /\ operation.answer.err.nil
  /\ Unmarshal(operation.answer.body, operation.name).ok
  /\ Len(Unmarshal(operation.answer.body, operation.name).resp.Errors.elems) > 0
  /\ Field(operation.answer.body.doc, << "data" >>).t # "null"

\* the data the response struct of the last operation holds after decoding
DecodedData == Unmarshal(operation.answer.body, operation.name).resp.Data

\* C21 as stated: an operation that decodes a body with both data and a
\* non-empty errors list returns a non-nil error and the result decoded from
\* data
C21_DataNextToError ==
  BothDataAndErrors =>
    /\ ~operation.result.err.nil
    /\ operation.result.value = DecodedData

\* C21: Accounts, IssueApiToken, Markets and Deals return a non-nil error and
\* the result decoded from data when the body carries both data and a
\* non-empty errors list; the result is not the zero value when data holds
\* their field
C21_DataNextToErrorWhereKept ==
  BothDataAndErrors /\ operation.name \in {"Accounts", "IssueApiToken", "Markets", "Deals"} =>
    /\ ~operation.result.err.nil
    /\ operation.result.err.msg[1] = "exchange error: "
    /\ operation.result.value = DecodedData
    /\ DecodedData # ZeroValue(DataType(operation.name)) =>
         operation.result.value
           \notin {ZeroValue(DataType(operation.name)), ZeroResult(operation.name)}

C21_Witness ==
  /\ BothDataAndErrors
  /\ operation.name = "Markets"
  /\ operation.result.value = JArr(<< JObj(<< Member("id", JNum(1)) >>) >>)
  /\ operation.result.err.msg = << "exchange error: ", "some error" >>

\* C22: Tickers called with a nil or an empty markets list returns the error
\* "not empty markets expected" and nil tickers; it builds no request and
\* never calls the core, so it returns the error on a client without a core
\* too
C22_TickersEmptyMarkets ==
  operation.name = "Tickers" /\ Len(operation.args.list.elems) = 0 =>
    /\ operation.result.err = [nil |-> FALSE, msg |-> << "not empty markets expected" >>]
    /\ operation.result.value = JNull
    /\ operation.invoked = 0
    /\ ~operation.panicked
    /\ operation.request = NoEnvelope

C22_Witness ==
  /\ operation.name = "Tickers"
  /\ ~operation.hasCore
  /\ operation.args.list.nil
  /\ operation.result.err.msg = << "not empty markets expected" >>
  /\ operation.invoked = 0

\* C23: an operation whose check of the arguments passes calls the core
\* exactly once, whether the call then ends in an error or not, and hands it
\* variables built from the arguments of this call alone: none for UserID,
\* and for Deposits the one asset as a list of one with the offset and limit
C23_OneInvocationFromArguments ==
  /\ operation.name # "none"
  /\ operation.hasCore
  /\ ~(operation.name = "Tickers" /\ Len(operation.args.list.elems) = 0)
  =>
    /\ operation.invoked = 1
    /\ ~operation.panicked
    /\ operation.request = OperationRequest(operation.name, operation.args)
    /\ operation.name = "UserID" => operation.request.Variables = JNull
    /\ operation.name = "Deposits" =>
         operation.request.Variables =
           JObj(<< Member("assets", JArr(<< JStr(operation.args.asset) >>)),
                   Member("offset", JNum(operation.args.n)),
                   Member("limit", JNum(operation.args.m)) >>)

C23_Witness ==
  /\ operation.name = "Deposits"
  /\ operation.args.asset = << "ETH" >>
  /\ ~operation.answer.err.nil
  /\ ~operation.result.err.nil
  /\ operation.invoked = 1
  /\ Field(operation.request.Variables, << "assets" >>) = JArr(<< JStr(<< "ETH" >>) >>)

\* C24: in macaroon mode the token a call derives is the root macaroon with
\* two caveats added, first the nonce this call's increment wrote and then the
\* current time; the root macaroon the core stores stays as it was
C24_RootPlusNonceAndTime ==
  [][\A p \in Procs :
       loc[p].pc = "derive" /\ loc'[p].pc = "send" =>
         /\ calls'[loc[p].id].token =
              EncodeMacaroon(Root \o << Caveat("nonce", loc[p].reg),
                                        Caveat("time", calls'[loc[p].id].tm) >>)
         /\ core'.macaroon = Root]_vars

\* C25: a call of do on one core leaves every other core as it was, its
\* nonce included, and moves its own nonce by at most one; a core that
\* NewClient makes starts counting at zero whatever the others have reached,
\* and making it changes none of them
C25_NoncePerInstance ==
  [][/\ Len(instances'.cores) >= Len(instances.cores)
     /\ Len(instances'.cores) = Len(instances.cores) =>
          \A j \in 1..Len(instances.cores) :
            IF j = instances'.on
            THEN instances'.cores[j].nonce \in {instances.cores[j].nonce,
                                                instances.cores[j].nonce + 1}
            ELSE instances'.cores[j] = instances.cores[j]
     /\ Len(instances'.cores) > Len(instances.cores) =>
          /\ instances'.cores[Len(instances'.cores)].nonce = 0
          /\ \A j \in 1..Len(instances.cores) : instances'.cores[j] = instances.cores[j]]_vars

C25_Witness ==
  /\ Len(instances.cores) = 3
  /\ instances.cores[1].jwt = Empty /\ instances.cores[1].nonce = 2
  /\ instances.cores[2].jwt = Empty /\ instances.cores[2].nonce = 1
  /\ instances.cores[3].jwt = Empty /\ instances.cores[3].nonce = 0
  /\ instances.on = 1

\* C26: no step of a call of do, whether the call succeeds or fails, changes
\* the url, the root macaroon or the jwt or bearer token of the core; the
\* nonce is the only field of the core that ever changes
C26_OnlyNonceChanges ==
  [][/\ core'.url = core.url
     /\ core'.macaroon = core.macaroon
     /\ core'.jwt = core.jwt
     /\ core'.authToken = core.authToken
     /\ core'.kind = core.kind]_vars

C26_Witness ==
  /\ core = [NewCore(GoodURL, Root, Empty) EXCEPT !.nonce = 2]
  /\ \E i, j \in CallIds :
       /\ calls[i].out = "errDo"
       /\ calls[j].resp = Answer(200, ResponseBody) /\ calls[j].body = ResponseBody
       /\ calls[i].token # Empty /\ calls[j].token # Empty

\* C27: a client that NewClient returns without error holds a decoded root
\* macaroon or a non-empty jwt
C27_UsableCredential ==
  newClient.called /\ newClient.err.nil =>
    \/ ~newClient.client.core.macaroon.nil
    \/ newClient.client.core.jwt # Empty

C30_ResultNextToError ==
  operation.invoked = 1 =>
    LET u == Unmarshal(operation.answer.body, operation.name)
        zero == CASE operation.name \in {"UserID", "LightningCreateInvoice", "IssueApiToken"} ->
                       JStr(Empty)
                  [] operation.name = "LightningNodeReachable" -> JBool(FALSE)
                  [] operation.name \in {"Deposits", "Tickers"} -> JNull
                  [] operation.name \in {"Accounts", "Markets", "Deals"} -> JArr(<< >>)
                  [] OTHER -> JObj(<< >>) IN
    /\ (~operation.answer.err.nil \/ ~u.ok) =>
         ~operation.result.err.nil /\ operation.result.value = zero
    /\ (operation.answer.err.nil /\ u.ok /\ Len(u.resp.Errors.elems) > 0) =>
         /\ ~operation.result.err.nil
         /\ operation.result.value =
              IF operation.name \in {"Accounts", "IssueApiToken", "Markets", "Deals"}
              THEN u.resp.Data ELSE zero

C30_Witness ==
  /\ operation.name = "Order"
  /\ operation.invoked = 1
  /\ operation.answer.err.nil
  /\ operation.answer.body = JSONDoc(JObj(<< Member("errors", OneError),
                                             Member("data", DataOf("Order")) >>))
  /\ operation.result.value = JObj(<< >>)
  /\ operation.result.err.msg = << "exchange error: ", "some error" >>

====
